---- MODULE Spec2Model ----
(***************************************************************************)
(* The event multiplexer of the ipc-rules plugin                           *)
(* (plugins/single_plugins/ipc-rules.cpp): the signal_map of reference     *)
(* counted signal connections, the registry of watching clients, the       *)
(* events/watch handler, the client-disconnected handler, the output       *)
(* lifecycle hooks and the fan-out of events to the clients.               *)
(*                                                                         *)
(* One action is one handler run to completion: the plugin runs on the     *)
(* compositor's single event loop.                                         *)
(***************************************************************************)
EXTENDS Integers, Sequences, FiniteSets

\* ------------------------------------------------------------------ bounds

\* Number of IPC clients that connect during a run.
NumClients == 2

\* Number of output slots; an output that is removed frees its slot.
NumOutputs == 2

\* Longest `events` array a client sends.
MaxListLen == 2

\* Largest connected_count a run is followed to.
MaxCount == 2

\* Number of views; the views with an odd id are toplevel views.
NumViews == 2

\* Number of input devices.
NumDevices == 3

Clients == 1..NumClients

Outputs == 1..NumOutputs

Views == 1..NumViews

Devices == 1..NumDevices

\* --------------------------------------------------------------- signal_map

\* The keys of signal_map whose handler has a register_core callback.
CoreEvents ==
    {"view-mapped", "view-unmapped", "view-set-output", "view-geometry-changed",
     "view-wset-changed", "view-focused", "view-title-changed", "view-app-id-changed",
     "plugin-activation-state-changed", "output-gain-focus"}

\* The keys of signal_map whose handler has a register_output callback.
OutputEvents ==
    {"view-tiled", "view-minimized", "view-fullscreened", "view-sticky",
     "view-workspace-changed", "output-wset-changed", "wset-workspace-changed"}

\* The keys of signal_map: the names events/watch accepts.
SignalKeys == CoreEvents \cup OutputEvents

\* The name under which the connection registered as signal_map[key] publishes.
EventName(key) ==
    IF key = "view-fullscreened" THEN "view-fullscreen" ELSE key

\* The signals the host is made to emit in a run.
FiredSignals == {"view-mapped", "view-tiled", "view-fullscreened"}

\* The strings clients put into an `events` array in a run.
ListNames == {"view-mapped", "view-fullscreened", "output-added"}

StringEntry(s) == [type |-> "string", value |-> s]

NumberEntry == [type |-> "number", value |-> "7"]

Entries == {StringEntry(s) : s \in ListNames} \cup {NumberEntry}

Lists == UNION {[1..n -> Entries] : n \in 0..MaxListLen}

\* The `data` of an events/watch request: no `events` field, an `events` field
\* that is no array, or an `events` array.
WatchData ==
    {[present |-> FALSE, array |-> FALSE, items |-> <<>>],
     [present |-> TRUE, array |-> FALSE, items |-> <<>>]}
    \cup {[present |-> TRUE, array |-> TRUE, items |-> l] : l \in Lists}

\* -------------------------------------------------------------------- state

VARIABLES
    signal_map,  \* per key: connected_count, and how often the key's connection
                 \* sits in the core's and in each output's list of connections
    outputs,     \* the outputs of the output layout
    clients,     \* the map client -> set of event names
    gone,        \* the clients that have disconnected
    kind,        \* per client, the shape of its latest accepted watch request:
                 \* "none", "absent" (no `events` field) or "list"
    last,        \* what the last handler did
    views,       \* per view: its output, its geometry and its sticky flag
    devices,     \* per input device: whether it is enabled
    answer,      \* the last request of a lookup or configure method: the method,
                 \* the `id` and `enabled` fields sent, the response, and the
                 \* focus and close requests the handler issued
    solo         \* the signal map and the registry of a second run of the plugin
                 \* that sees the same host signals, outputs and requests of
                 \* the observed client, and no request of any other client;
                 \* `sends` is the number of send_json calls the last handler
                 \* made on the observed client in that run

vars == <<signal_map, outputs, clients, gone, kind, last, views, devices, answer, solo>>

\* The state of the event multiplexer.
multiplexer == <<signal_map, outputs, clients, gone, kind, last, solo>>

\* The state of the compositor that the lookup and configure methods read and
\* write.
host == <<views, devices, answer>>

NoSends == [c \in Clients |-> 0]

\* A signal_registration_handler as constructed: count 0, connected nowhere.
Unconnected == [connected_count |-> 0, core |-> 0, outs |-> [o \in Outputs |-> 0]]

\* The record of a handler that has called nothing: its fields are the handler
\* that ran (op), the client it ran for, the shape of the request and the
\* response, the signal emitted, the event name published, the number of
\* publications (runs) and of send_json calls per client, the names a
\* re-watch dropped, the names the loop over an `events` array had taken
\* when it met an entry that is no string, the keys whose connection was
\* attached to a new output at the moment "output-added" was published, and
\* the strings of the `events` array of an accepted request.
Idle == [op |-> "init", client |-> {}, request |-> "", result |-> "",
         signal |-> "", name |-> "", runs |-> 0, sends |-> NoSends,
         dropped |-> {}, accepted |-> {}, attached |-> {}, listed |-> {}]

\* A field of a request's `data`: whether it is there, whether it has the JSON
\* type the handler expects, and its value.
NoField(v) == [present |-> FALSE, typed |-> FALSE, value |-> v]

MistypedField(v) == [present |-> TRUE, typed |-> FALSE, value |-> v]

Field(v) == [present |-> TRUE, typed |-> TRUE, value |-> v]

\* A response: a JSON object or array, with or without a `result` field.
NoResponse == [shape |-> "", has_result |-> FALSE, result |-> "", error |-> ""]

\* The record of a request handler that has not run.
NoAnswer == [method |-> "", id |-> NoField(0), enabled |-> NoField(FALSE),
             response |-> NoResponse, focus_request |-> {}, close |-> {}]

\* A view as it is before any request: on the output `home` (a set of at
\* most one output), with the geometry it chose, not sticky.
InitialView(home) == [output |-> home, geometry |-> "initial", sticky |-> FALSE]

\* The multiplexer after init(): nothing counted, nobody registered.
MultiplexerInit ==
    /\ signal_map = [k \in SignalKeys |-> Unconnected]
    /\ outputs \in SUBSET Outputs
    /\ clients = <<>>
    /\ gone = {}
    /\ kind = [c \in Clients |-> "none"]
    /\ last = Idle

\* The views, all on `home`, and the input devices, all enabled.
HostInit(home) ==
    /\ views = [v \in Views |-> InitialView(home)]
    /\ devices = [d \in Devices |-> TRUE]
    /\ answer = NoAnswer

\* The client whose deliveries the second run follows.
Observed == CHOOSE c \in Clients : \A d \in Clients : c <= d

\* The second run after init(); it is followed only if `on`.
Shadow(on) ==
    [on |-> on, signal_map |-> [k \in SignalKeys |-> Unconnected],
     clients |-> <<>>, sends |-> 0]

Init ==
    /\ MultiplexerInit
    /\ HostInit({})
    /\ solo = Shadow(FALSE)

\* ---------------------------------------------- signal_registration_handler

\* register_core of signal_map[key]: connects the connection to the core.
register_core(key, h) ==
    IF key \in CoreEvents THEN [h EXCEPT !.core = @ + 1] ELSE h

\* register_output of signal_map[key]: connects the connection to output wo.
register_output(key, h, wo) ==
    IF key \in OutputEvents THEN [h EXCEPT !.outs[wo] = @ + 1] ELSE h

\* unregister of signal_map[key]: disconnects the connection from everything.
unregister(key, h) ==
    [h EXCEPT !.core = 0, !.outs = [o \in Outputs |-> 0]]

RECURSIVE register_outputs(_, _, _)
\* The loop of increase_count over the outputs of the layout.
register_outputs(key, h, wos) ==
    IF wos = {} THEN h
    ELSE LET wo == CHOOSE o \in wos : TRUE
         IN register_outputs(key, register_output(key, h, wo), wos \ {wo})

\* decrease_count without its unregister.
decrease_count_keeps_connection(key, h) ==
    [h EXCEPT !.connected_count = @ - 1]

\* increase_count without its early return.
increase_count_always_registers(key, h, outs) ==
    LET counted == [h EXCEPT !.connected_count = @ + 1]
    IN register_outputs(key, register_core(key, counted), outs)

increase_count(key, h, outs) ==
    LET counted == [h EXCEPT !.connected_count = @ + 1]
    IN IF counted.connected_count > 1
       THEN counted
       ELSE register_outputs(key, register_core(key, counted), outs)

decrease_count(key, h) ==
    LET counted == [h EXCEPT !.connected_count = @ - 1]
    IN IF counted.connected_count > 0
       THEN counted
       ELSE unregister(key, counted)

\* ------------------------------------------------------------------ fan-out

\* send_event_to_subscribes without the test for the empty set.
send_event_to_subscribes_named_only(reg, event_name) ==
    [c \in Clients |-> IF c \in DOMAIN reg /\ event_name \in reg[c] THEN 1 ELSE 0]

\* send_event_to_subscribes: how often send_json is called on each client.
send_event_to_subscribes(reg, event_name) ==
    [c \in Clients |->
        IF c \in DOMAIN reg /\ (reg[c] = {} \/ event_name \in reg[c]) THEN 1 ELSE 0]

\* ---------------------------------------------------------- on_client_watch

RECURSIVE subscribe_loop(_, _, _)
\* The loop over data[EVENTS]: the set built, or the error of the first
\* entry that is no string.
subscribe_loop(items, i, acc) ==
    IF i > Len(items) THEN [ok |-> TRUE, set |-> acc]
    ELSE IF items[i].type # "string" THEN [ok |-> FALSE, set |-> acc]
    ELSE subscribe_loop(items, i + 1,
            IF items[i].value \in SignalKeys THEN acc \cup {items[i].value} ELSE acc)

\* WFJSON_OPTIONAL_FIELD(data, EVENTS, array): the field is absent or an array.
optional_field_ok(data) == ~data.present \/ data.array

\* subscribed_to that leaves the set empty when there is no `events` field.
subscribed_to_keeps_sentinel(data) ==
    IF ~optional_field_ok(data) THEN [ok |-> FALSE, set |-> {}]
    ELSE IF data.present THEN subscribe_loop(data.items, 1, {})
    ELSE [ok |-> TRUE, set |-> {}]

\* The local subscribed_to of on_client_watch, or the error response.
subscribed_to(data) ==
    IF ~optional_field_ok(data) THEN [ok |-> FALSE, set |-> {}]
    ELSE IF data.present THEN subscribe_loop(data.items, 1, {})
    ELSE [ok |-> TRUE, set |-> SignalKeys]

\* on_client_watch that stores the set of a client that already has one
\* without raising the counts of its names.
watch_result_rewatch_uncounted(sm, reg, outs, client, data) ==
    LET sub == subscribed_to(data)
    IN IF ~sub.ok
       THEN [result |-> "error", signal_map |-> sm, clients |-> reg]
       ELSE [result |-> "ok",
             signal_map |-> [k \in SignalKeys |->
                 IF k \in sub.set /\ client \notin DOMAIN reg
                 THEN increase_count(k, sm[k], outs) ELSE sm[k]],
             clients |-> [c \in DOMAIN reg \cup {client} |->
                 IF c = client THEN sub.set ELSE reg[c]]]

\* on_client_watch that raises the count of each name as the loop takes it,
\* so that the names before an entry that is no string stay counted.
watch_result_counts_in_loop(sm, reg, outs, client, data) ==
    LET sub == subscribed_to(data)
    IN [result |-> IF sub.ok THEN "ok" ELSE "error",
        signal_map |-> [k \in SignalKeys |->
            IF k \in sub.set THEN increase_count(k, sm[k], outs) ELSE sm[k]],
        clients |-> IF sub.ok
                    THEN [c \in DOMAIN reg \cup {client} |->
                             IF c = client THEN sub.set ELSE reg[c]]
                    ELSE reg]

\* on_client_watch that answers an error by dropping every stored set.
watch_result_error_clears(sm, reg, outs, client, data) ==
    LET sub == subscribed_to(data)
    IN IF ~sub.ok
       THEN [result |-> "error", signal_map |-> sm,
             clients |-> [c \in DOMAIN reg |-> {}]]
       ELSE [result |-> "ok",
             signal_map |-> [k \in SignalKeys |->
                 IF k \in sub.set THEN increase_count(k, sm[k], outs) ELSE sm[k]],
             clients |-> [c \in DOMAIN reg \cup {client} |->
                 IF c = client THEN sub.set ELSE reg[c]]]

\* on_client_watch that makes an entry for the client before it looks at the
\* request, so that an error leaves an empty entry behind.
watch_result_error_registers(sm, reg, outs, client, data) ==
    LET sub == subscribed_to(data)
    IN IF ~sub.ok
       THEN [result |-> "error", signal_map |-> sm,
             clients |-> [c \in DOMAIN reg \cup {client} |->
                 IF c \in DOMAIN reg THEN reg[c] ELSE {}]]
       ELSE [result |-> "ok",
             signal_map |-> [k \in SignalKeys |->
                 IF k \in sub.set THEN increase_count(k, sm[k], outs) ELSE sm[k]],
             clients |-> [c \in DOMAIN reg \cup {client} |->
                 IF c = client THEN sub.set ELSE reg[c]]]

\* What one events/watch request makes of the signal map and of the registry.
watch_result(sm, reg, outs, client, data) ==
    LET sub == subscribed_to(data)
    IN IF ~sub.ok
       THEN [result |-> "error", signal_map |-> sm, clients |-> reg]
       ELSE [result |-> "ok",
             signal_map |-> [k \in SignalKeys |->
                 IF k \in sub.set THEN increase_count(k, sm[k], outs) ELSE sm[k]],
             clients |-> [c \in DOMAIN reg \cup {client} |->
                 IF c = client THEN sub.set ELSE reg[c]]]

KindOf(data) == IF data.present THEN "list" ELSE "absent"

\* The shape of the request: no `events`, `events` no array, an empty array,
\* an array with entries.
ShapeOf(data) ==
    IF ~data.present THEN "absent"
    ELSE IF ~data.array THEN "no-array"
    ELSE IF Len(data.items) = 0 THEN "empty"
    ELSE "list"

\* The strings of an `events` array.
StringsOf(items) ==
    {items[i].value : i \in {j \in 1..Len(items) : items[j].type = "string"}}

\* The names a client was subscribed to by an `events` array and that the
\* `events` array of its next accepted request does not hold.
Dropped(reg, kinds, result, client, data) ==
    IF result = "ok" /\ data.present /\ kinds[client] = "list"
    THEN reg[client] \ StringsOf(data.items)
    ELSE {}

\* on_client_watch in the second run: only the observed client's request
\* reaches it.
solo_watch(s, outs, client, data) ==
    IF ~s.on THEN s
    ELSE IF client # Observed THEN [s EXCEPT !.sends = 0]
    ELSE LET res == watch_result(s.signal_map, s.clients, outs, client, data)
         IN [s EXCEPT !.signal_map = res.signal_map, !.clients = res.clients,
                      !.sends = 0]

on_client_watch(client, data) ==
    /\ client \in Clients \ gone
    /\ LET res == watch_result(signal_map, clients, outputs, client, data)
       IN /\ \A k \in SignalKeys : res.signal_map[k].connected_count <= MaxCount
          /\ signal_map' = res.signal_map
          /\ clients' = res.clients
          /\ kind' = IF res.result = "ok" THEN [kind EXCEPT ![client] = KindOf(data)]
                     ELSE kind
          /\ last' = [Idle EXCEPT !.op = "watch", !.client = {client},
                                  !.request = ShapeOf(data), !.result = res.result,
                                  !.dropped = Dropped(clients, kind, res.result, client, data),
                                  !.accepted = IF res.result = "error"
                                               THEN subscribed_to(data).set ELSE {},
                                  !.listed = IF res.result = "ok"
                                             THEN StringsOf(data.items) ELSE {}]
    /\ solo' = solo_watch(solo, outputs, client, data)
    /\ UNCHANGED <<outputs, gone>>
    /\ UNCHANGED host

Watch == \E c \in Clients, data \in WatchData : on_client_watch(c, data)

\* --------------------------------------------------- on_client_disconnected

\* clients[client], which makes an empty entry for a client that has none.
StoredSet(reg, client) == IF client \in DOMAIN reg THEN reg[client] ELSE {}

\* on_client_disconnected in the second run: only the observed client's
\* disconnect reaches it.
solo_disconnected(s, client) ==
    IF ~s.on THEN s
    ELSE IF client # Observed THEN [s EXCEPT !.sends = 0]
    ELSE [s EXCEPT
            !.signal_map = [k \in SignalKeys |->
                IF k \in StoredSet(s.clients, client)
                THEN decrease_count(k, s.signal_map[k]) ELSE s.signal_map[k]],
            !.clients = [c \in DOMAIN s.clients \ {client} |-> s.clients[c]],
            !.sends = 0]

\* on_client_disconnected without the erase of the client's entry.
on_client_disconnected_keeps_entry(client) ==
    /\ client \in Clients \ gone
    /\ signal_map' = [k \in SignalKeys |->
          IF k \in StoredSet(clients, client) THEN decrease_count(k, signal_map[k])
          ELSE signal_map[k]]
    /\ gone' = gone \cup {client}
    /\ last' = [Idle EXCEPT !.op = "disconnect", !.client = {client}]
    /\ solo' = solo_disconnected(solo, client)
    /\ UNCHANGED <<outputs, clients, kind>>
    /\ UNCHANGED host

on_client_disconnected(client) ==
    /\ client \in Clients \ gone
    /\ signal_map' = [k \in SignalKeys |->
          IF k \in StoredSet(clients, client) THEN decrease_count(k, signal_map[k])
          ELSE signal_map[k]]
    /\ clients' = [c \in DOMAIN clients \ {client} |-> clients[c]]
    /\ gone' = gone \cup {client}
    /\ last' = [Idle EXCEPT !.op = "disconnect", !.client = {client}]
    /\ solo' = solo_disconnected(solo, client)
    /\ UNCHANGED <<outputs, kind>>
    /\ UNCHANGED host

Disconnect == \E c \in Clients : on_client_disconnected(c)

\* ------------------------------------------------------------- host signals

Times(n, sends) == [c \in Clients |-> n * sends[c]]

\* The callback of the connection of `key` runs once for every time the
\* connection sits in the emitter's list, and each run publishes EventName(key).
\* A publication of event_name in the second run, by m runs of a callback.
solo_publish(s, event_name, m) ==
    IF ~s.on THEN s
    ELSE [s EXCEPT !.sends =
             m * send_event_to_subscribes(s.clients, event_name)[Observed]]

callback(key, n, m) ==
    /\ last' = [Idle EXCEPT !.op = "signal", !.signal = key, !.name = EventName(key),
                  !.runs = n,
                  !.sends = Times(n, send_event_to_subscribes(clients, EventName(key)))]
    /\ solo' = solo_publish(solo, EventName(key), m)
    /\ UNCHANGED <<signal_map, outputs, clients, gone, kind>>
    /\ UNCHANGED host

\* The host emits the signal of a core event on the core.
core_signal(key) ==
    /\ key \in CoreEvents
    /\ callback(key, signal_map[key].core, solo.signal_map[key].core)

\* The host emits the signal of an output event on output wo.
output_signal(key, wo) ==
    /\ key \in OutputEvents
    /\ wo \in outputs
    /\ callback(key, signal_map[key].outs[wo], solo.signal_map[key].outs[wo])

CoreSignal == \E key \in FiredSignals : core_signal(key)

OutputSignal == \E key \in FiredSignals, wo \in Outputs : output_signal(key, wo)

\* --------------------------------------------------------- output lifecycle

\* handle_new_output in the second run.
solo_new_output(s, output) ==
    IF ~s.on THEN s
    ELSE [s EXCEPT
            !.signal_map = [k \in SignalKeys |->
                IF s.signal_map[k].connected_count # 0
                THEN register_output(k, s.signal_map[k], output)
                ELSE s.signal_map[k]],
            !.sends = send_event_to_subscribes(s.clients, "output-added")[Observed]]

\* handle_new_output without the registration of the live events.
handle_new_output_registers_nothing(output) ==
    /\ output \in Outputs \ outputs
    /\ outputs' = outputs \cup {output}
    /\ last' = [Idle EXCEPT !.op = "output-added", !.name = "output-added", !.runs = 1,
                  !.sends = send_event_to_subscribes(clients, "output-added")]
    /\ solo' = solo_new_output(solo, output)
    /\ UNCHANGED <<signal_map, clients, gone, kind>>
    /\ UNCHANGED host

\* The keys whose connection sits in the list of output wo.
AttachedTo(sm, wo) == {k \in SignalKeys : sm[k].outs[wo] >= 1}

\* handle_new_output with the publication of "output-added" before the loop
\* that registers the live events.
handle_new_output_publishes_first(output) ==
    /\ output \in Outputs \ outputs
    /\ outputs' = outputs \cup {output}
    /\ last' = [Idle EXCEPT !.op = "output-added", !.name = "output-added", !.runs = 1,
                  !.sends = send_event_to_subscribes(clients, "output-added"),
                  !.attached = AttachedTo(signal_map, output)]
    /\ signal_map' = [k \in SignalKeys |->
          IF signal_map[k].connected_count # 0
          THEN register_output(k, signal_map[k], output)
          ELSE signal_map[k]]
    /\ solo' = solo_new_output(solo, output)
    /\ UNCHANGED <<clients, gone, kind>>
    /\ UNCHANGED host

handle_new_output(output) ==
    /\ output \in Outputs \ outputs
    /\ outputs' = outputs \cup {output}
    /\ LET registered == [k \in SignalKeys |->
              IF signal_map[k].connected_count # 0
              THEN register_output(k, signal_map[k], output)
              ELSE signal_map[k]]
       IN /\ signal_map' = registered
          /\ last' = [Idle EXCEPT !.op = "output-added", !.name = "output-added",
                        !.runs = 1,
                        !.sends = send_event_to_subscribes(clients, "output-added"),
                        !.attached = AttachedTo(registered, output)]
    /\ solo' = solo_new_output(solo, output)
    /\ UNCHANGED <<clients, gone, kind>>
    /\ UNCHANGED host

\* The teardown of a removed output drops the connections made to it.
output_destroyed(h, output) == [h EXCEPT !.outs[output] = 0]

\* handle_output_removed and the teardown of the output in the second run.
solo_output_removed(s, output) ==
    IF ~s.on THEN s
    ELSE [s EXCEPT
            !.signal_map = [k \in SignalKeys |-> output_destroyed(s.signal_map[k], output)],
            !.sends = send_event_to_subscribes(s.clients, "output-removed")[Observed]]

handle_output_removed(output) ==
    /\ output \in outputs
    /\ last' = [Idle EXCEPT !.op = "output-removed", !.name = "output-removed", !.runs = 1,
                  !.sends = send_event_to_subscribes(clients, "output-removed")]
    /\ outputs' = outputs \ {output}
    /\ signal_map' = [k \in SignalKeys |-> output_destroyed(signal_map[k], output)]
    /\ solo' = solo_output_removed(solo, output)
    /\ UNCHANGED <<clients, gone, kind>>
    /\ UNCHANGED host

OutputAdded == \E o \in Outputs : handle_new_output(o)

OutputRemoved == \E o \in Outputs : handle_output_removed(o)

\* ------------------------------------------------------------ specification

Next ==
    \/ Watch
    \/ Disconnect
    \/ CoreSignal
    \/ OutputSignal
    \/ OutputAdded
    \/ OutputRemoved

Spec == Init /\ [][Next]_vars

InitPair ==
    /\ MultiplexerInit
    /\ HostInit({})
    /\ solo = Shadow(TRUE)

\* The plugin together with the second run in which only the observed client
\* sends requests.
SpecPair == InitPair /\ [][Next]_vars

\* ------------------------------------- the handler of one key, called freely

\* increase_count of signal_map[key], called by any caller at any count.
call_increase_count(key) ==
    /\ signal_map[key].connected_count < MaxCount
    /\ signal_map' = [signal_map EXCEPT ![key] = increase_count(key, @, outputs)]
    /\ last' = [Idle EXCEPT !.op = "increase_count", !.signal = key]
    /\ UNCHANGED <<outputs, clients, gone, kind, solo>>
    /\ UNCHANGED host

\* decrease_count of signal_map[key], called by any caller at any count.
call_decrease_count(key) ==
    /\ signal_map[key].connected_count > -MaxCount
    /\ signal_map' = [signal_map EXCEPT ![key] = decrease_count(key, @)]
    /\ last' = [Idle EXCEPT !.op = "decrease_count", !.signal = key]
    /\ UNCHANGED <<outputs, clients, gone, kind, solo>>
    /\ UNCHANGED host

IncreaseCount == \E key \in FiredSignals : call_increase_count(key)

DecreaseCount == \E key \in FiredSignals : call_decrease_count(key)

NextCount ==
    \/ IncreaseCount
    \/ DecreaseCount

\* The signal_registration_handler under every sequence of calls of its two
\* counting methods.
SpecCount == Init /\ [][NextCount]_vars

\* ------------------------------------------------- requests and responses

\* wf::ipc::json_ok(): {"result": "ok"}.
json_ok == [shape |-> "object", has_result |-> TRUE, result |-> "ok", error |-> ""]

\* wf::ipc::json_error(msg): {"result": "error", "error": msg}.
json_error(msg) ==
    [shape |-> "object", has_result |-> TRUE, result |-> "error", error |-> msg]

\* nlohmann::json::array() with the entries pushed to it.
json_array == [shape |-> "array", has_result |-> FALSE, result |-> "", error |-> ""]

\* A nlohmann::json object whose fields are the ones of a description.
json_description ==
    [shape |-> "object", has_result |-> FALSE, result |-> "", error |-> ""]

\* WFJSON_EXPECT_FIELD: the field is there and has the type.
expect_field_ok(f) == f.present /\ f.typed

\* WFJSON_OPTIONAL_FIELD: the field, if there, has the type.
optional_field_typed(f) == ~f.present \/ f.typed

\* The error response of WFJSON_EXPECT_FIELD and WFJSON_OPTIONAL_FIELD.
field_error(f) ==
    IF f.present THEN json_error("field does not have the correct type")
    ELSE json_error("missing field")

\* The `id` fields clients send for entities numbered 1..n: none, one that is
\* no integer, the id of each entity, and an id that resolves to nothing.
IdFields(n) == {NoField(0), MistypedField(0)} \cup {Field(i) : i \in 1..(n + 1)}

\* The `output_id` fields clients send; an output outside the layout does not
\* resolve.
OutputIdFields == {NoField(0), MistypedField(0)} \cup {Field(o) : o \in Outputs}

BooleanFields == {NoField(FALSE), MistypedField(FALSE), Field(TRUE), Field(FALSE)}

\* The `geometry` fields clients send: none, one that is no object, an object
\* that lacks a coordinate, and a rectangle.
GeometryFields ==
    {NoField(""), MistypedField(""), Field("malformed"), Field("requested")}

\* The `data` of a configure-view request.
ConfigureData ==
    [id : IdFields(NumViews), output_id : OutputIdFields,
     geometry : GeometryFields, sticky : BooleanFields]

\* wf::ipc::find_view_by_id: the view of that id, if any.
find_view_by_id(id) == IF id \in Views THEN {id} ELSE {}

\* wf::toplevel_cast: the views with an odd id are toplevel views.
toplevel_cast(view) == IF view % 2 = 1 THEN {view} ELSE {}

\* wf::ipc::find_output_by_id: the output of that id in the layout, if any.
find_output_by_id(outs, id) == IF id \in outs THEN {id} ELSE {}

\* wf::ipc::find_workspace_set_by_index: each output of the layout carries the
\* workspace set of its index.
find_workspace_set_by_index(outs, id) == IF id \in outs THEN {id} ELSE {}

\* wf::ipc::geometry_from_json: the rectangle, if the object is one.
geometry_from_json(g) == IF g = "malformed" THEN {} ELSE {g}

\* wf::move_view_to_output: the view goes to output wo, and with `reconfigure`
\* its geometry is fitted to that output.
move_view_to_output(vs, view, wo, reconfigure) ==
    [vs EXCEPT ![view].output = {wo},
               ![view].geometry = IF reconfigure THEN "fitted" ELSE @]

set_geometry(vs, view, g) == [vs EXCEPT ![view].geometry = g]

set_sticky(vs, view, sticky) == [vs EXCEPT ![view].sticky = sticky]

\* The record of a handler that answered `response` to `method`.
Answer(method, id, response) ==
    [NoAnswer EXCEPT !.method = method, !.id = id, !.response = response]

\* ------------------------------------------------------------ configure_view

\* What configure_view makes of the views, and its response.
configure_view_result(vs, outs, data) ==
    IF ~expect_field_ok(data.id)
    THEN [response |-> field_error(data.id), views |-> vs]
    ELSE IF ~optional_field_typed(data.output_id)
    THEN [response |-> field_error(data.output_id), views |-> vs]
    ELSE IF ~optional_field_typed(data.geometry)
    THEN [response |-> field_error(data.geometry), views |-> vs]
    ELSE IF ~optional_field_typed(data.sticky)
    THEN [response |-> field_error(data.sticky), views |-> vs]
    ELSE IF find_view_by_id(data.id.value) = {}
    THEN [response |-> json_error("view not found"), views |-> vs]
    ELSE IF toplevel_cast(data.id.value) = {}
    THEN [response |-> json_error("view is not toplevel"), views |-> vs]
    ELSE IF data.output_id.present /\ find_output_by_id(outs, data.output_id.value) = {}
    THEN [response |-> json_error("output not found"), views |-> vs]
    ELSE
      LET toplevel == data.id.value
          moved == IF data.output_id.present
                   THEN move_view_to_output(vs, toplevel, data.output_id.value,
                                            ~data.geometry.present)
                   ELSE vs
      IN IF data.geometry.present /\ geometry_from_json(data.geometry.value) = {}
         THEN [response |-> json_error("invalid geometry"), views |-> moved]
         ELSE
           LET placed == IF data.geometry.present
                         THEN set_geometry(moved, toplevel, data.geometry.value)
                         ELSE moved
               stuck == IF data.sticky.present
                        THEN set_sticky(placed, toplevel, data.sticky.value)
                        ELSE placed
           IN [response |-> json_ok, views |-> stuck]

configure_view(data) ==
    /\ LET res == configure_view_result(views, outputs, data)
       IN /\ views' = res.views
          /\ answer' = Answer("configure-view", data.id, res.response)
    /\ UNCHANGED devices
    /\ UNCHANGED multiplexer

ConfigureView == \E data \in ConfigureData : configure_view(data)

\* ----------------------------------------------------------- lookup methods

get_view_info(id) ==
    /\ answer' = Answer("view-info", id,
          IF ~expect_field_ok(id) THEN field_error(id)
          ELSE IF find_view_by_id(id.value) # {} THEN json_ok
          ELSE json_error("no such view"))
    /\ UNCHANGED <<views, devices>>
    /\ UNCHANGED multiplexer

\* focus_view with the focus request issued before the toplevel cast is
\* looked at.
focus_view_requests_first(id) ==
    /\ answer' =
          IF ~expect_field_ok(id) THEN Answer("focus-view", id, field_error(id))
          ELSE IF find_view_by_id(id.value) = {}
          THEN Answer("focus-view", id, json_error("no such view"))
          ELSE IF toplevel_cast(id.value) = {}
          THEN [Answer("focus-view", id, json_error("view is not toplevel"))
                   EXCEPT !.focus_request = {id.value}]
          ELSE [Answer("focus-view", id, json_ok) EXCEPT !.focus_request = {id.value}]
    /\ UNCHANGED <<views, devices>>
    /\ UNCHANGED multiplexer

focus_view(id) ==
    /\ answer' =
          IF ~expect_field_ok(id) THEN Answer("focus-view", id, field_error(id))
          ELSE IF find_view_by_id(id.value) = {}
          THEN Answer("focus-view", id, json_error("no such view"))
          ELSE IF toplevel_cast(id.value) = {}
          THEN Answer("focus-view", id, json_error("view is not toplevel"))
          ELSE [Answer("focus-view", id, json_ok) EXCEPT !.focus_request = {id.value}]
    /\ UNCHANGED <<views, devices>>
    /\ UNCHANGED multiplexer

close_view(id) ==
    /\ answer' =
          IF ~expect_field_ok(id) THEN Answer("close-view", id, field_error(id))
          ELSE IF find_view_by_id(id.value) = {}
          THEN Answer("close-view", id, json_error("no such view"))
          ELSE [Answer("close-view", id, json_ok) EXCEPT !.close = {id.value}]
    /\ UNCHANGED <<views, devices>>
    /\ UNCHANGED multiplexer

get_output_info(id) ==
    /\ answer' = Answer("output-info", id,
          IF ~expect_field_ok(id) THEN field_error(id)
          ELSE IF find_output_by_id(outputs, id.value) = {}
          THEN json_error("output not found")
          ELSE json_description)
    /\ UNCHANGED <<views, devices>>
    /\ UNCHANGED multiplexer

get_wset_info(id) ==
    /\ answer' = Answer("wset-info", id,
          IF ~expect_field_ok(id) THEN field_error(id)
          ELSE IF find_workspace_set_by_index(outputs, id.value) = {}
          THEN json_error("workspace set not found")
          ELSE json_description)
    /\ UNCHANGED <<views, devices>>
    /\ UNCHANGED multiplexer

get_wayfire_configuration_info ==
    /\ answer' = Answer("configuration", NoField(0), json_description)
    /\ UNCHANGED <<views, devices>>
    /\ UNCHANGED multiplexer

list_views ==
    /\ answer' = Answer("list-views", NoField(0), json_array)
    /\ UNCHANGED <<views, devices>>
    /\ UNCHANGED multiplexer

list_outputs ==
    /\ answer' = Answer("list-outputs", NoField(0), json_array)
    /\ UNCHANGED <<views, devices>>
    /\ UNCHANGED multiplexer

list_wsets ==
    /\ answer' = Answer("list-wsets", NoField(0), json_array)
    /\ UNCHANGED <<views, devices>>
    /\ UNCHANGED multiplexer

get_focused_view ==
    /\ answer' = Answer("get-focused-view", NoField(0), json_ok)
    /\ UNCHANGED <<views, devices>>
    /\ UNCHANGED multiplexer

get_focused_output ==
    /\ answer' = Answer("get-focused-output", NoField(0), json_ok)
    /\ UNCHANGED <<views, devices>>
    /\ UNCHANGED multiplexer

ViewInfo == \E id \in IdFields(NumViews) : get_view_info(id)

FocusView == \E id \in IdFields(NumViews) : focus_view(id)

CloseView == \E id \in IdFields(NumViews) : close_view(id)

OutputInfo == \E id \in IdFields(NumOutputs) : get_output_info(id)

WsetInfo == \E id \in IdFields(NumOutputs) : get_wset_info(id)

\* The outputs a view is on before any request: none, or one of the layout.
Homes == {{}} \cup {{o} : o \in outputs}

InitView ==
    /\ MultiplexerInit
    /\ \E home \in Homes : HostInit(home)
    /\ solo = Shadow(FALSE)

NextView ==
    \/ ConfigureView
    \/ ViewInfo
    \/ FocusView
    \/ CloseView
    \/ OutputInfo
    \/ WsetInfo
    \/ get_wayfire_configuration_info
    \/ list_views
    \/ list_outputs
    \/ list_wsets
    \/ get_focused_view
    \/ get_focused_output

\* The lookup and configure methods of the views, outputs and workspace sets,
\* called in any order on a fixed layout.
SpecView == InitView /\ [][NextView]_vars

\* ------------------------------------------------------------ input devices

\* configure_input_device that returns at the first device of the list,
\* whether its id is the requested one or not.
configure_input_device_first_device(id, enabled) ==
    /\ IF ~expect_field_ok(id)
       THEN /\ answer' = [Answer("configure-device", id, field_error(id))
                             EXCEPT !.enabled = enabled]
            /\ devices' = devices
       ELSE IF ~expect_field_ok(enabled)
       THEN /\ answer' = [Answer("configure-device", id, field_error(enabled))
                             EXCEPT !.enabled = enabled]
            /\ devices' = devices
       ELSE /\ answer' = [Answer("configure-device", id, json_ok)
                             EXCEPT !.enabled = enabled]
            /\ devices' = [devices EXCEPT ![1] = enabled.value]
    /\ UNCHANGED views
    /\ UNCHANGED multiplexer

configure_input_device(id, enabled) ==
    /\ IF ~expect_field_ok(id)
       THEN /\ answer' = [Answer("configure-device", id, field_error(id))
                             EXCEPT !.enabled = enabled]
            /\ devices' = devices
       ELSE IF ~expect_field_ok(enabled)
       THEN /\ answer' = [Answer("configure-device", id, field_error(enabled))
                             EXCEPT !.enabled = enabled]
            /\ devices' = devices
       ELSE IF \E device \in Devices : device = id.value
       THEN /\ answer' = [Answer("configure-device", id, json_ok)
                             EXCEPT !.enabled = enabled]
            /\ devices' = [devices EXCEPT ![id.value] = enabled.value]
       ELSE /\ answer' = [Answer("configure-device", id,
                                 json_error("Unknown input device!"))
                             EXCEPT !.enabled = enabled]
            /\ devices' = devices
    /\ UNCHANGED views
    /\ UNCHANGED multiplexer

list_input_devices ==
    /\ answer' = Answer("list-devices", NoField(0), json_array)
    /\ UNCHANGED <<views, devices>>
    /\ UNCHANGED multiplexer

ConfigureDevice ==
    \E id \in IdFields(NumDevices), enabled \in BooleanFields :
        configure_input_device(id, enabled)

NextDevice ==
    \/ ConfigureDevice
    \/ list_input_devices

\* The two input methods, called in any order.
SpecDevice == Init /\ [][NextDevice]_vars

\* ------------------------------------------------------------------ claims

Registered == DOMAIN clients

Count(k) == signal_map[k].connected_count

\* The registered clients whose stored set holds k.
Holders(reg, k) == {c \in DOMAIN reg : k \in reg[c]}

\* Whether the fan-out rule gives a registered client the events named e.
Effective(c, e) == clients[c] = {} \/ e \in clients[c]

\* The last handler published an event.
Published == last.runs >= 1

AbsentData == [present |-> FALSE, array |-> FALSE, items |-> <<>>]

\* C1. Ref-count exactness: for every event name the source is attached
\* (connected_count > 0) if and only if some registered client's effective
\* subscription set holds the name, the empty stored set holding every name.
RefCountExactness ==
    \A k \in SignalKeys : (Count(k) > 0) <=> (\E c \in Registered : Effective(c, k))

\* C2. Re-watch replaces: when a client that already has a stored set watches
\* again, and every count equalled the number of registered clients holding
\* the name before the call, every count equals it after the call.
RewatchReplaces ==
    [][(/\ last'.op = "watch"
        /\ last'.result = "ok"
        /\ last'.client \subseteq Registered
        /\ \A k \in SignalKeys : Count(k) = Cardinality(Holders(clients, k)))
       => \A k \in SignalKeys :
             signal_map'[k].connected_count = Cardinality(Holders(clients', k))]_vars

\* C3. No leak on disconnect: whenever no client is registered, every
\* connected_count is 0 and no connection is attached anywhere.
NoLeakOnDisconnect ==
    Registered = {} => \A k \in SignalKeys : signal_map[k] = Unconnected

\* C4. Disconnect cleanup: the disconnect of a client decrements the count of
\* each name of its stored set by exactly one and leaves every other count,
\* and no handler that runs once a client is gone calls send_json on it.
DisconnectCleanup ==
    [][/\ \A c \in gone' \ gone : \A k \in SignalKeys :
             signal_map'[k].connected_count =
                Count(k) - (IF k \in StoredSet(clients, c) THEN 1 ELSE 0)
       /\ \A c \in gone' : last'.sends[c] = 0]_vars

\* A client that was subscribed to every key has disconnected, and an event
\* published afterwards is sent to a client that is still registered.
DisconnectCleanupWitness ==
    /\ \E c \in gone : kind[c] = "absent"
    /\ last.op = "signal"
    /\ Published
    /\ \E c \in Registered : last.sends[c] = 1

\* C5. Idempotent attach: a connection sits at most once in the list of the
\* core and of each output, and a count that is raised from 1 or more leaves
\* the attachments of its key as they are.
IdempotentAttach ==
    [][\A k \in SignalKeys :
          /\ signal_map'[k].core <= 1
          /\ \A o \in Outputs : signal_map'[k].outs[o] <= 1
          /\ (Count(k) >= 1 /\ signal_map'[k].connected_count > Count(k))
                => /\ signal_map'[k].core = signal_map[k].core
                   /\ signal_map'[k].outs = signal_map[k].outs]_vars

\* Two clients count on an output event, and an output that appeared while
\* the event was live is attached beside an earlier one.
IdempotentAttachWitness ==
    /\ last.op = "output-added"
    /\ \E k \in OutputEvents :
          /\ Count(k) >= 2
          /\ Cardinality({o \in outputs : signal_map[k].outs[o] = 1}) >= 2

\* C6. Fan-out correctness: each publication of an event calls send_json once
\* on every registered client whose stored set is empty or holds the event's
\* name, and on no other client.
FanOutCorrectness ==
    Published =>
        \A c \in Clients :
            last.sends[c] =
                (IF c \in Registered /\ (clients[c] = {} \/ last.name \in clients[c])
                 THEN last.runs ELSE 0)

\* An event was published to one registered client and not to another.
FanOutWitness ==
    /\ Published
    /\ \E c \in Registered : last.sends[c] = 1
    /\ \E c \in Registered : last.sends[c] = 0

\* C7. Watch then receive: the signal of a key that a registered client named
\* in the `events` array of its latest request is delivered to that client
\* once, under the name of the key; a connected client that never watched is
\* sent nothing.
WatchThenReceive ==
    /\ last.op = "signal" =>
          \A c \in Registered :
              (kind[c] = "list" /\ last.signal \in clients[c])
                 => (last.sends[c] = 1 /\ last.name = last.signal)
    /\ \A c \in Clients \ (Registered \cup gone) : last.sends[c] = 0

\* C8. All-events sentinel: every event published, whatever its name, is sent
\* to every registered client whose latest request had no `events` field.
AllEventsSentinel ==
    Published => \A c \in Registered : kind[c] = "absent" => last.sends[c] >= 1

\* C9. A request with an empty `events` array leaves the signal map that the
\* same request without `events` field would have left, and the same
\* deliveries of later events to the client.
EmptyListIsAbsent ==
    [][(last'.op = "watch" /\ last'.request = "empty") =>
          \A c \in last'.client :
             LET absent == watch_result(signal_map, clients, outputs, c, AbsentData)
             IN /\ signal_map' = absent.signal_map
                /\ \A e \in {EventName(k) : k \in SignalKeys} :
                      send_event_to_subscribes(clients', e)[c] =
                         send_event_to_subscribes(absent.clients, e)[c]]_vars

\* C10. After a re-watch old events stop: an event published right after a
\* client's re-watch under a name of the client's previous `events` array that
\* the new array does not hold is not sent to the client.
OldEventsStop ==
    [][(last.op = "watch" /\ last.result = "ok" /\ last'.runs >= 1
        /\ last'.name \in last.dropped)
       => \A c \in last.client : last'.sends[c] = 0]_vars

\* C11. Live iff counted: the connection of a key whose count is above 0 is
\* attached (a core event to the core, an output event to every output of the
\* layout), the connection of a key whose count is 0 is attached nowhere, and
\* the connection of a core event sits at most once in the core's list.
LiveIffCounted ==
    \A k \in SignalKeys :
        /\ Count(k) > 0 =>
              /\ k \in CoreEvents => signal_map[k].core >= 1
              /\ k \in OutputEvents => \A o \in outputs : signal_map[k].outs[o] >= 1
        /\ Count(k) <= 0 =>
              /\ signal_map[k].core = 0
              /\ \A o \in Outputs : signal_map[k].outs[o] = 0
        /\ signal_map[k].core <= 1

\* A client that counted on every key has disconnected: a core event another
\* client holds is still attached, and a key nobody holds is detached.
LiveIffCountedWitness ==
    /\ last.op = "disconnect"
    /\ \E c \in gone : kind[c] = "absent"
    /\ \E k \in CoreEvents : Count(k) >= 1 /\ signal_map[k].core = 1
    /\ \E k \in SignalKeys : Count(k) = 0 /\ signal_map[k] = Unconnected

\* C12. No underflow from client input: no connected_count is ever negative,
\* and a disconnect decrements only keys whose count is 1 or more.
NoUnderflow ==
    [][/\ \A k \in SignalKeys : signal_map'[k].connected_count >= 0
       /\ \A c \in gone' \ gone : \A k \in StoredSet(clients, c) : Count(k) >= 1]_vars

\* Every client has watched and disconnected, and the decrements of the last
\* disconnect have brought every count to 0.
NoUnderflowWitness ==
    /\ last.op = "disconnect"
    /\ gone = Clients
    /\ \A c \in Clients : kind[c] # "none"
    /\ \A k \in SignalKeys : Count(k) = 0

\* C13. Invalid watch changes nothing: a request whose `events` array holds an
\* entry that is no string is answered with an error and leaves the signal map
\* (counts and attachments) and every stored set as they were.
InvalidWatchChangesNothing ==
    [][(last'.op = "watch" /\ last'.request = "list" /\ last'.result = "error")
       => (signal_map' = signal_map /\ clients' = clients)]_vars

\* A client with a stored set was answered an error for an array in which a
\* key it does not hold stands before the entry that is no string.
InvalidWatchWitness ==
    /\ last.op = "watch"
    /\ last.request = "list"
    /\ last.result = "error"
    /\ last.accepted # {}
    /\ \E c \in last.client :
          /\ c \in Registered
          /\ clients[c] # {}
          /\ ~(last.accepted \subseteq clients[c])

\* C15. Errors are isolated to the requesting client: a watch request of a
\* client, accepted or not, and the disconnect of a client leave every other
\* registered client registered, with the stored set it had.
ErrorsIsolated ==
    [][(last'.op \in {"watch", "disconnect"}) =>
          \A a \in last'.client : \A b \in Registered \ {a} :
             /\ b \in DOMAIN clients'
             /\ clients'[b] = clients[b]]_vars

\* A watch request was answered with an error while another client is
\* registered with a stored set of names.
ErrorsIsolatedWitness ==
    /\ last.op = "watch"
    /\ last.result = "error"
    /\ \E b \in Registered \ last.client : clients[b] # {}

\* C19. Per-output attachments stay in sync with the outputs: the connection
\* of an output event whose count is above 0 sits once in the list of each
\* output of the layout and in no other, and the connection of an output event
\* whose count is 0 sits in no output's list.
OutputAttachmentsInSync ==
    \A k \in OutputEvents : \A o \in Outputs :
        signal_map[k].outs[o] = (IF Count(k) > 0 /\ o \in outputs THEN 1 ELSE 0)

\* An output was removed while an output event was counted, and the event is
\* attached to the output that is left.
OutputAttachmentsWitness ==
    /\ last.op = "output-removed"
    /\ \E k \in OutputEvents :
          /\ Count(k) > 0
          /\ \E o \in outputs : signal_map[k].outs[o] = 1

\* C20. decrease_count called on a key whose count is 0 fails instead of
\* proceeding: it leaves the count at 0, stores no negative count and detaches
\* nothing.
DecrementAtZeroFails ==
    [][\A k \in SignalKeys :
          (last'.op = "decrease_count" /\ last'.signal = k /\ Count(k) = 0)
             => /\ signal_map'[k].connected_count >= 0
                /\ signal_map'[k].core = signal_map[k].core
                /\ signal_map'[k].outs = signal_map[k].outs]_vars

\* C14. Validation before mutation in configure-view: a configure-view
\* request that is answered with an error has changed no view's output,
\* geometry or sticky flag.
ValidationBeforeMutation ==
    [][(answer'.method = "configure-view" /\ answer'.response.result = "error")
          => views' = views]_vars

\* The lookup methods that take the id of a view.
ViewLookups == {"view-info", "focus-view", "close-view"}

\* C16. Unknown or unsupported entity: view-info, focus-view and close-view
\* with an id no view has answer the error "no such view", output-info and
\* wset-info with an id that resolves to nothing answer an error that names
\* the kind of entity, focus-view on a view that is no toplevel answers an
\* error, and a lookup method that answers an error has issued no focus
\* request and no close request and has changed nothing.
UnknownEntityNoSideEffects ==
    [][LET a == answer'
           sent == expect_field_ok(a.id)
       IN /\ (a.method \in ViewLookups /\ sent /\ a.id.value \notin Views)
                => a.response = json_error("no such view")
          /\ (a.method = "output-info" /\ sent /\ a.id.value \notin outputs)
                => a.response = json_error("output not found")
          /\ (a.method = "wset-info" /\ sent /\ a.id.value \notin outputs)
                => a.response = json_error("workspace set not found")
          /\ (a.method = "focus-view" /\ sent /\ a.id.value \in Views
                /\ a.id.value % 2 = 0)
                => (a.response.result = "error" /\ a.response.error # "")
          /\ (a.method \in ViewLookups \cup {"output-info", "wset-info"}
                /\ a.response.result = "error")
                => /\ a.focus_request = {}
                   /\ a.close = {}
                   /\ views' = views
                   /\ devices' = devices
                   /\ UNCHANGED multiplexer]_vars

\* focus-view was called with the id of a view that is no toplevel view and
\* answered an error, with no focus request.
UnknownEntityWitness ==
    /\ answer.method = "focus-view"
    /\ answer.id.value \in Views
    /\ answer.response = json_error("view is not toplevel")
    /\ answer.focus_request = {}

\* C17. Device toggle: input/configure-device with an `id` or `enabled` field
\* that is missing or of the wrong type answers an error and touches no
\* device; with an id no device has it answers the error "Unknown input
\* device!" and touches no device; with the id of a device it sets that
\* device's enabled state to the requested value, leaves every other device
\* and answers ok.
DeviceToggle ==
    [][answer'.method = "configure-device" =>
          LET a == answer'
              sent == expect_field_ok(a.id) /\ expect_field_ok(a.enabled)
          IN /\ ~sent => (a.response.result = "error" /\ devices' = devices)
             /\ (sent /\ a.id.value \notin Devices)
                   => /\ a.response = json_error("Unknown input device!")
                      /\ devices' = devices
             /\ (sent /\ a.id.value \in Devices)
                   => /\ a.response = json_ok
                      /\ devices' = [d \in Devices |->
                            IF d = a.id.value THEN a.enabled.value ELSE devices[d]]]_vars

\* A device was enabled again by a request that answered ok, while another
\* device stays disabled.
DeviceToggleWitness ==
    /\ answer.method = "configure-device"
    /\ answer.response = json_ok
    /\ answer.enabled.value
    /\ \E d \in Devices : d # answer.id.value /\ ~devices[d]

\* C18. Response envelope: the response of every method is an object whose
\* `result` field is "ok" or "error", with a message in `error` in the error
\* case.
ResponseEnvelope ==
    answer.method # "" =>
        /\ answer.response.shape = "object"
        /\ answer.response.has_result
        /\ answer.response.result \in {"ok", "error"}
        /\ answer.response.result = "error" => answer.response.error # ""

\* C21. Exact counting for watch-all: a request without `events` field raises
\* the count of every key by exactly one and stores every key for the client;
\* the disconnect of a client whose latest accepted request had no `events`
\* field lowers the count of every key by exactly one; and a watch-all that is
\* followed by the client's disconnect leaves every count as it was.
WatchAllExact ==
    [][/\ (last'.op = "watch" /\ last'.request = "absent" /\ last'.result = "ok")
             => \A c \in last'.client :
                   /\ clients'[c] = SignalKeys
                   /\ \A k \in SignalKeys :
                         signal_map'[k].connected_count = Count(k) + 1
       /\ \A c \in gone' \ gone :
             kind[c] = "absent" =>
                \A k \in SignalKeys : signal_map'[k].connected_count = Count(k) - 1
       /\ \A c \in Clients \ gone :
             LET watched == watch_result(signal_map, clients, outputs, c, AbsentData)
             IN \A k \in SignalKeys :
                   decrease_count(k, watched.signal_map[k]).connected_count = Count(k)]_vars

\* A client whose latest request had no `events` field has just disconnected,
\* a client with a stored set of names is still registered, and every count
\* is the number of registered clients that hold the key.
WatchAllExactWitness ==
    /\ last.op = "disconnect"
    /\ \E c \in last.client : kind[c] = "absent"
    /\ \E b \in Registered : clients[b] # {}
    /\ \A k \in SignalKeys : Count(k) = Cardinality(Holders(clients, k))

\* C24. Published names are keys: every name under which an event is
\* published is a key of signal_map, and the connection registered under a
\* key publishes under that key.
PublishedNamesAreKeys ==
    Published =>
        /\ last.name \in SignalKeys
        /\ last.op = "signal" => last.name = last.signal

\* C26. Registry membership: a client has an entry in `clients` if and only
\* if one of its watch requests was accepted and it has not disconnected; the
\* disconnect of a client none of whose requests was accepted leaves the
\* registry and the signal map (counts and attachments) as they were.
RegistryMembership ==
    [][/\ \A c \in Clients :
             c \in DOMAIN clients' <=> (kind'[c] # "none" /\ c \notin gone')
       /\ \A c \in gone' \ gone :
             kind[c] = "none" => (clients' = clients /\ signal_map' = signal_map)]_vars

\* A client none of whose watch requests was accepted has disconnected,
\* while another client is registered and counted.
RegistryMembershipWitness ==
    /\ last.op = "disconnect"
    /\ \E c \in last.client : kind[c] = "none"
    /\ Registered # {}
    /\ \E k \in SignalKeys : Count(k) >= 1

\* C22. Output lifecycle: when an output appears, the connection of every
\* counted output event is attached to it before "output-added" is published,
\* which is published once; when an output is removed, "output-removed" is
\* published once; and neither step changes a count or a stored set.
OutputLifecycle ==
    [][(outputs' # outputs) =>
          /\ \A k \in SignalKeys : signal_map'[k].connected_count = Count(k)
          /\ clients' = clients
          /\ last'.runs = 1
          /\ \A o \in outputs' \ outputs :
                /\ last'.name = "output-added"
                /\ last'.attached = {k \in OutputEvents : Count(k) > 0}
          /\ \A o \in outputs \ outputs' :
                last'.name = "output-removed"]_vars

\* An output appeared while an output event was counted: the event's
\* connection was attached when "output-added" was published, and a client
\* was sent the event.
OutputLifecycleWitness ==
    /\ last.op = "output-added"
    /\ last.attached # {}
    /\ \E c \in Registered : last.sends[c] = 1

\* C23. List-only delivery: an event published right after a client's
\* accepted request with a non-empty `events` array, under a name that is no
\* entry of the array, is not sent to the client.
ListOnlyDelivery ==
    [][(/\ last.op = "watch"
        /\ last.result = "ok"
        /\ last.request = "list"
        /\ last'.runs >= 1
        /\ last'.name \notin last.listed)
       => \A c \in last.client : last'.sends[c] = 0]_vars

\* C25. Non-interference between clients: each handler sends the observed
\* client what it sends it in the run with the same host signals and outputs
\* and the same requests of the observed client, in which no other client
\* sends a request.
NonInterference ==
    solo.on => last.sends[Observed] = solo.sends

====
